---- MODULE Spec2Model ----
(***************************************************************************)
(* Model of the ai-client library: the two provider adapters (Gemini and   *)
(* OpenAI) behind the AIClient.Generate capability, and the OCR and        *)
(* Article stores built on it.                                             *)
(*                                                                         *)
(* Texts produced by a provider (and handed on to sjson.Set and            *)
(* json.Unmarshal) are sequences of JSON lexemes, so that patching and     *)
(* parsing are computed on the text and not assumed.                       *)
(***************************************************************************)
EXTENDS Integers, Sequences, FiniteSets, TLC

(***************************************************************************)
(* JSON lexemes.  A text is a sequence of tokens <<kind, value>>.          *)
(***************************************************************************)
LB == <<"lb", "{">>
RB == <<"rb", "}">>
LA == <<"la", "[">>
RA == <<"ra", "]">>
COMMA == <<"comma", ",">>
COLON == <<"colon", ":">>
NullTok == <<"null", "null">>
Str(s) == <<"str", s>>
Num(s) == <<"num", s>>
Bad(s) == <<"bad", s>>

Kind(t, i) == t[i][1]

(***************************************************************************)
(* encoding/json syntax check (checkValid): ValueEnd(t, i) is the index    *)
(* after the JSON value that starts at i, or 0 when there is none.         *)
(***************************************************************************)
RECURSIVE ValueEnd(_, _), MembersEnd(_, _), ElemsEnd(_, _)
ValueEnd(t, i) ==
    IF i > Len(t) THEN 0
    ELSE CASE Kind(t, i) \in {"str", "num", "null"} -> i + 1
           [] Kind(t, i) = "lb" ->
                IF i + 1 <= Len(t) /\ Kind(t, i + 1) = "rb" THEN i + 2
                ELSE MembersEnd(t, i + 1)
           [] Kind(t, i) = "la" ->
                IF i + 1 <= Len(t) /\ Kind(t, i + 1) = "ra" THEN i + 2
                ELSE ElemsEnd(t, i + 1)
           [] OTHER -> 0

MembersEnd(t, i) ==
    IF i + 1 > Len(t) \/ Kind(t, i) # "str" \/ Kind(t, i + 1) # "colon" THEN 0
    ELSE LET j == ValueEnd(t, i + 2)
         IN  IF j = 0 \/ j > Len(t) THEN 0
             ELSE IF Kind(t, j) = "rb" THEN j + 1
             ELSE IF Kind(t, j) = "comma" THEN MembersEnd(t, j + 1)
             ELSE 0

ElemsEnd(t, i) ==
    LET j == ValueEnd(t, i)
    IN  IF j = 0 \/ j > Len(t) THEN 0
        ELSE IF Kind(t, j) = "ra" THEN j + 1
        ELSE IF Kind(t, j) = "comma" THEN ElemsEnd(t, j + 1)
        ELSE 0

Valid(t) == ValueEnd(t, 1) = Len(t) + 1

(***************************************************************************)
(* The members of a valid object text, in order: key and value span.       *)
(***************************************************************************)
RECURSIVE MemberList(_, _)
MemberList(t, i) ==
    IF Kind(t, i) = "rb" THEN <<>>
    ELSE LET j == ValueEnd(t, i + 2)
         IN  <<[key |-> t[i][2], from |-> i + 2, to |-> j - 1]>>
             \o (IF Kind(t, j) = "comma" THEN MemberList(t, j + 1) ELSE <<>>)

(***************************************************************************)
(* Go pointer-to-string field values, and the OCRRawInfo record.           *)
(***************************************************************************)
Nil == [isNil |-> TRUE, s |-> ""]
Ptr(s) == [isNil |-> FALSE, s |-> s]

OCRFields == {"identify_url", "name", "birthday", "position", "department",
              "facility", "valid_date", "specialty_valid_date"}

\* encoding/json matches a key to a field by exact name, else case-insensitively.
FoldKey(k) ==
    CASE k = "Name" -> "name"
      [] k = "IDENTIFY_URL" -> "identify_url"
      [] OTHER -> k

(***************************************************************************)
(* json.Unmarshal into a struct of string-typed fields.  ptr says whether  *)
(* the fields are *string (null stores nil) or string (null is skipped).   *)
(* A syntax error leaves the target untouched; a value of the wrong type   *)
(* is skipped, decoding goes on, and the error is returned at the end.     *)
(***************************************************************************)
RECURSIVE DecodeMembers(_, _, _, _, _)
DecodeMembers(t, ms, fields, ptr, acc) ==
    IF ms = <<>> THEN acc
    ELSE LET m == Head(ms)
             f == FoldKey(m.key)
             single == m.from = m.to
             k == Kind(t, m.from)
             next ==
               IF f \notin fields THEN acc
               ELSE IF single /\ k = "str"
                 THEN [acc EXCEPT !.rec[f] = IF ptr THEN Ptr(t[m.from][2]) ELSE t[m.from][2]]
               ELSE IF single /\ k = "null"
                 THEN IF ptr THEN [acc EXCEPT !.rec[f] = Nil] ELSE acc
               ELSE [acc EXCEPT !.err = TRUE]
         IN  DecodeMembers(t, Tail(ms), fields, ptr, next)

Unmarshal(t, fields, ptr) ==
    LET zero == [err |-> FALSE, rec |-> [f \in fields |-> IF ptr THEN Nil ELSE ""]]
    IN  IF ~Valid(t) THEN [zero EXCEPT !.err = TRUE]
        ELSE IF Kind(t, 1) = "null" THEN zero
        ELSE IF Kind(t, 1) = "lb"
          THEN DecodeMembers(t, MemberList(t, 2), fields, ptr, zero)
        ELSE [zero EXCEPT !.err = TRUE]

(***************************************************************************)
(* gjson.Get(json, key) for a one-part path: the first member of the       *)
(* outermost object whose key is exactly key.                              *)
(***************************************************************************)
RECURSIVE Squash(_, _, _)
\* index of the token closing the bracket opened before i (depth d), or Len(t)
Squash(t, i, d) ==
    IF i > Len(t) THEN Len(t)
    ELSE IF Kind(t, i) \in {"lb", "la"} THEN Squash(t, i + 1, d + 1)
    ELSE IF Kind(t, i) \in {"rb", "ra"}
      THEN IF d = 1 THEN i ELSE Squash(t, i + 1, d - 1)
    ELSE Squash(t, i + 1, d)

SkipValue(t, i) == IF Kind(t, i) \in {"lb", "la"} THEN Squash(t, i + 1, 1) ELSE i

NotFound == [found |-> FALSE, from |-> 0, to |-> 0]

RECURSIVE ScanObject(_, _, _)
ScanObject(t, i, key) ==
    IF i > Len(t) \/ Kind(t, i) = "rb" THEN NotFound
    ELSE IF Kind(t, i) = "str"
      THEN IF i + 2 > Len(t) \/ Kind(t, i + 1) # "colon" THEN NotFound
           ELSE LET e == SkipValue(t, i + 2)
                IN  IF t[i][2] = key
                      THEN [found |-> TRUE, from |-> i + 2, to |-> e]
                      ELSE ScanObject(t, e + 1, key)
    ELSE ScanObject(t, i + 1, key)

GjsonGet(t, key) ==
    IF t # <<>> /\ Kind(t, 1) = "lb" THEN ScanObject(t, 2, key) ELSE NotFound

(***************************************************************************)
(* sjson.Set(json, key, value) for a one-part, non-numeric path and a      *)
(* string value: an existing value is replaced in place; otherwise the     *)
(* member is appended before the last closing brace.  A text that is not   *)
(* an object or array is replaced by {}; an array is an error.             *)
(***************************************************************************)
LastRB(t) ==
    LET S == {i \in 2..Len(t) : Kind(t, i) = "rb"}
    IN  IF S = {} THEN 1 ELSE CHOOSE i \in S : \A j \in S : j <= i

SjsonSet(t, key, value) ==
    LET hit == GjsonGet(t, key)
    IN  IF hit.found
          THEN [err |-> FALSE,
                out |-> SubSeq(t, 1, hit.from - 1) \o <<Str(value)>>
                        \o SubSeq(t, hit.to + 1, Len(t))]
        ELSE LET j == IF t = <<>> \/ Kind(t, 1) \notin {"lb", "la"}
                        THEN <<LB, RB>> ELSE t
                 comma == Len(j) >= 2 /\ Kind(j, 2) \notin {"rb", "ra"}
             IN  IF Kind(j, 1) = "la" THEN [err |-> TRUE, out |-> <<>>]
                 ELSE [err |-> FALSE,
                       out |-> SubSeq(j, 1, LastRB(j) - 1)
                               \o (IF comma THEN <<COMMA>> ELSE <<>>)
                               \o <<Str(key), COLON, Str(value), RB>>]

(***************************************************************************)
(* Bounds of the model.                                                    *)
(***************************************************************************)
MaxImages == 2          \* image references in a direct Generate request
MaxCandidates == 2      \* candidates / choices in a provider response
NumProcs == 2           \* goroutines calling Generate on one adapter at the same time

(***************************************************************************)
(* Values the callers and the providers are drawn from.                    *)
(***************************************************************************)
Links == {"u1", "u2"}
UserIDs == {"alice", "bob"}
PlatformTypes == {"apen", "nurse", "phar"}
Contents == {"", "post"}

Obj(members) == <<LB>> \o members \o <<RB>>
\* a member whose value is the text v
Member(k, v) == <<Str(k), COLON>> \o v

TxtEmpty == <<>>
TxtGarbage == <<Bad("hello")>>
TxtNull == <<NullTok>>
TxtArray == <<LA, Str("A"), RA>>
TxtEmptyObj == Obj(<<>>)
TxtName == Obj(Member("name", <<Str("A")>>))
TxtFoldName == Obj(Member("Name", <<Str("B")>>))
TxtNameNum == Obj(Member("name", <<Num("7")>>))
TxtUrl == Obj(Member("identify_url", <<Str("u2")>>) \o <<COMMA>> \o Member("name", <<Str("A")>>))
TxtExtra == Obj(Member("name", <<Str("B")>>) \o <<COMMA>>
                \o Member("extra", Obj(Member("identify_url", <<Num("7")>>))) \o <<COMMA>>
                \o Member("position", <<Str("VS")>>))
TxtDupUrl == Obj(Member("identify_url", <<Str("u1")>>) \o <<COMMA>>
                 \o Member("identify_url", <<Str("u2")>>))
TxtTruncated == <<LB>> \o Member("name", <<Str("A")>>)

Texts == {TxtEmpty, TxtGarbage, TxtNull, TxtArray, TxtEmptyObj, TxtName, TxtFoldName,
          TxtNameNum, TxtUrl, TxtExtra, TxtDupUrl, TxtTruncated}

\* texts a Gemini response delivers cut into two parts
SplitTexts == {TxtName, TxtUrl}

(***************************************************************************)
(* Program constants.                                                      *)
(***************************************************************************)
OcrDefaultMaxToken == 1024
ArticleDefaultMaxToken == 2048
GeminiDefaultModel == "gemini-2.5-flash"
OpenAIDefaultModel == "gpt-4o"
ResponseFormatJSON == "json"
ResponseFormatText == "text"

\* models package (prompts, topics, message type): symbolic values
SystemContent == "SystemContent"
NamePrompt == "NamePrompt"
GetInfoPrompt(platformType) == "InfoPrompt/" \o platformType
GetExtractTagsSystemPrompt(professionType) == "ExtractTagsSystemPrompt/" \o professionType
GetPolishArticleSystemPrompt(professionType) == "PolishArticleSystemPrompt/" \o professionType
OCRTopicDev == "OCRTopicDev"
OCRTopicProd == "OCRTopicProd"
OCRMessageTypeIdentifyOCR == "identify_ocr"

\* error values; NoErr is Go's nil error
NoErr == ""
ErrStoreNotInitialized == "AI client is not initialized"
ErrStoreEmptyContent == "empty response content from AI client"
ErrGeminiNotInitialized == "gemini client is not initialized"
ErrOpenAINotInitialized == "openai client is not initialized"
ErrImageFetch == "failed to download image"
ErrGeminiCall == "failed to generate content"
ErrOpenAICall == "openai api error"
ErrGeminiNoCandidates == "empty response from Gemini"
ErrGeminiNoContent == "empty content in Gemini response"
ErrOpenAINoChoices == "empty response choices from OpenAI"
ErrSjson == "sjson error"
ErrUnmarshal == "json unmarshal error"

(***************************************************************************)
(* Provider responses.                                                     *)
(***************************************************************************)
TextPart(t) == [text |-> t]
Candidate(parts) == [hasContent |-> TRUE, parts |-> parts]
NilContentCandidate == [hasContent |-> FALSE, parts |-> <<>>]

GeminiCandidates ==
    {NilContentCandidate, Candidate(<<>>)}
    \cup {Candidate(<<TextPart(t)>>) : t \in Texts}
    \cup {Candidate(<<TextPart(SubSeq(t, 1, k)), TextPart(TxtEmpty),
                      TextPart(SubSeq(t, k + 1, Len(t)))>>) :
            t \in SplitTexts, k \in {1, 3}}

OpenAIChoices == {[content |-> t] : t \in Texts}

\* responses of 0..MaxCandidates items; the items after the first are a fixed filler
RECURSIVE Filler(_, _)
Filler(x, n) == IF n = 0 THEN <<>> ELSE <<x>> \o Filler(x, n - 1)

GeminiResponses ==
    {<<>>} \cup {<<c>> : c \in GeminiCandidates}
    \cup {<<c>> \o Filler(Candidate(<<TextPart(TxtGarbage)>>), n) :
            c \in {NilContentCandidate, Candidate(<<TextPart(TxtName)>>)},
            n \in 1..(MaxCandidates - 1)}

OpenAIResponses ==
    {<<>>} \cup {<<c>> : c \in OpenAIChoices}
    \cup {<<c>> \o Filler([content |-> TxtGarbage], n) :
            c \in {[content |-> TxtEmpty], [content |-> TxtName]},
            n \in 1..(MaxCandidates - 1)}

NoResp == [candidates |-> <<>>, choices |-> <<>>]

(***************************************************************************)
(* util.DownloadImage and http.DetectContentType: the bytes behind a URL   *)
(* and the MIME type sniffed from them.                                    *)
(***************************************************************************)
BytesOf(url) == "bytes-of-" \o url
DetectContentType(data) ==
    IF data = "bytes-of-u1" THEN "image/png" ELSE "application/octet-stream"

TextContent(text) == [kind |-> "text", v |-> text, mime |-> ""]
BytesContent(data, mime) == [kind |-> "bytes", v |-> data, mime |-> mime]
ImageURLContent(url) == [kind |-> "image_url", v |-> url, mime |-> ""]

NoRequest == [model |-> "", system |-> "", parts |-> <<>>, json |-> FALSE, maxTokens |-> 0]

VARIABLES
    cfg,            \* what construction fixed: stores' aiClient and configs, adapter's handle and model
    pc,             \* position of the call in progress
    op,             \* the operation called and its arguments
    req,            \* the Generate request: message and opts
    g,              \* Generate's locals: model, parts, loop index, outgoing request, response
    fetched,        \* URLs handed to util.DownloadImage in this call, in order
    gen,            \* what Generate returned
    modifiedJSON,   \* ScanRawInfo's patched JSON
    sent,           \* events handed to mq.Send in this call, in order
    trace,          \* steps of the call, in order
    ret,            \* what the operation returned
    hist,           \* the adapter as NewClient built it, and whether a call has carried a model override
    procs           \* concurrent callers of Generate: each one's position, request, locals and result

vars == <<cfg, pc, op, req, g, fetched, gen, modifiedJSON, sent, trace, ret, hist, procs>>

(***************************************************************************)
(* Construction: NewClient of an adapter, NewOcrStore, NewArticleStore.    *)
(***************************************************************************)
NewClient(kind, handle, model) ==
    [kind |-> kind, client |-> handle,
     defaultModel |-> IF model = ""
                        THEN (IF kind = "gemini" THEN GeminiDefaultModel ELSE OpenAIDefaultModel)
                        ELSE model]

OcrConfigOrDefault(config) ==
    IF config.isNil THEN [MaxToken |-> OcrDefaultMaxToken, IsProd |-> FALSE]
    ELSE [MaxToken |-> config.MaxToken, IsProd |-> config.IsProd]

ArticleConfigOrDefault(config) ==
    IF config.isNil THEN [MaxToken |-> ArticleDefaultMaxToken]
    ELSE [MaxToken |-> config.MaxToken]

\* the configs a caller passes: nil, or a prod / non-prod config
Configs == {[isNil |-> TRUE, MaxToken |-> 0, IsProd |-> FALSE],
            [isNil |-> FALSE, MaxToken |-> 512, IsProd |-> TRUE],
            [isNil |-> FALSE, MaxToken |-> 0, IsProd |-> FALSE]}

\* adapters a caller can build: the Gemini constructor always holds a handle,
\* the OpenAI constructor takes the handle it is given (possibly nil)
Adapters ==
    {NewClient("gemini", "handle", m) : m \in {"", "custom-model"}}
    \cup {NewClient("openai", "handle", m) : m \in {"", "custom-model"}}
    \cup {NewClient("openai", "nil", "")}

\* the stores built with no adapter at all hold a nil AIClient
NoAdapter == [kind |-> "none", client |-> "nil", defaultModel |-> ""]

NoOp == [name |-> "", userID |-> "", link |-> "", platform |-> "", content |-> ""]
NoReq == [SystemPrompt |-> "", Text |-> "", ImageUrls |-> <<>>,
          MaxTokens |-> 0, Model |-> "", ResponseFormat |-> ""]
NoG == [modelName |-> "", parts |-> <<>>, idx |-> 1, fetchFailed |-> FALSE,
        called |-> FALSE, provErr |-> FALSE, out |-> NoRequest, resp |-> NoResp]
NoGen == [done |-> FALSE, val |-> <<>>, err |-> NoErr]
NoRet == [val |-> <<>>, rec |-> [f \in OCRFields |-> Nil], name |-> "", err |-> NoErr]

Procs == 1..NumProcs
IdleProc == [pc |-> "idle", req |-> NoReq, g |-> NoG, fetched |-> <<>>, gen |-> NoGen]

Init ==
    /\ \E a \in Adapters \cup {NoAdapter}, c \in Configs :
         /\ cfg = [aiClientNil |-> a = NoAdapter,
                   adapter |-> a,
                   ocr |-> OcrConfigOrDefault(c),
                   article |-> ArticleConfigOrDefault(c)]
         /\ hist = [built |-> a, overridden |-> FALSE]
    /\ procs = [p \in Procs |-> IdleProc]
    /\ pc = "idle"
    /\ op = NoOp
    /\ req = NoReq
    /\ g = NoG
    /\ fetched = <<>>
    /\ gen = NoGen
    /\ modifiedJSON = <<>>
    /\ sent = <<>>
    /\ trace = <<>>
    /\ ret = NoRet

CanCall == pc = "idle"

\* a call starts from a clean slate: every per-call variable is reset
Begin(o, r, nextpc, rt) ==
    /\ op' = o
    /\ req' = r
    /\ pc' = nextpc
    /\ ret' = rt
    /\ g' = NoG
    /\ fetched' = <<>>
    /\ gen' = NoGen
    /\ modifiedJSON' = <<>>
    /\ sent' = <<>>
    /\ trace' = <<>>
    /\ UNCHANGED <<cfg, hist, procs>>


\* Generate returns (val, err) to the store or caller that invoked it
GenReturn(val, err) ==
    /\ gen' = [done |-> TRUE, val |-> val, err |-> err]
    /\ pc' = "gen_ret"
    /\ trace' = Append(trace, "generate")

\* the operation returns to its caller
Return(r) ==
    /\ ret' = r
    /\ pc' = "done"

(***************************************************************************)
(* Pieces of Generate shared by the two adapters.                          *)
(***************************************************************************)
ModelName(defaultModel, optsModel) ==
    IF optsModel # "" THEN optsModel ELSE defaultModel

\* the flag set for every format that was given, text included
\* the override stored in the adapter instead of a local
DefaultModelOverwritten(defaultModel, optsModel) ==
    IF optsModel # "" THEN optsModel ELSE defaultModel

\* c.defaultModel after Generate has chosen its model: it is only read
DefaultModelAfter(defaultModel, optsModel) == defaultModel

\* Generate's effect on the adapter it is called on, and the record of overrides
AdapterAfter(adapter, opts) ==
    [adapter EXCEPT !.defaultModel = DefaultModelAfter(@, opts.Model)]

JSONFlagUnlessEmpty(responseFormat) == responseFormat # ""

JSONFlag(responseFormat) == responseFormat = ResponseFormatJSON

TextParts(text) == IF text # "" THEN <<TextContent(text)>> ELSE <<>>

RECURSIVE ImageURLParts(_)
ImageURLParts(urls) ==
    IF urls = <<>> THEN <<>>
    ELSE <<ImageURLContent(Head(urls))>> \o ImageURLParts(Tail(urls))

(***************************************************************************)
(* Gemini adapter: Client.Generate.                                        *)
(***************************************************************************)
GeminiBegin ==
    /\ pc = "gen"
    /\ cfg.adapter.kind = "gemini"
    /\ IF cfg.adapter.client = "nil"
         THEN /\ GenReturn(<<>>, ErrGeminiNotInitialized)
              /\ UNCHANGED <<g, cfg, hist>>
         ELSE /\ g' = [g EXCEPT !.modelName = ModelName(cfg.adapter.defaultModel, req.Model),
                                !.parts = TextParts(req.Text),
                                !.idx = 1]
              /\ pc' = "gem_fetch"
              /\ cfg' = [cfg EXCEPT !.adapter = AdapterAfter(@, req)]
              /\ hist' = [hist EXCEPT !.overridden = @ \/ req.Model # ""]
              /\ UNCHANGED <<gen, trace>>
    /\ UNCHANGED <<procs, op, req, fetched, modifiedJSON, sent, ret>>

GeminiLoopDone(idx, urls) == idx > Len(urls)

\* a download error that is dropped: the loop goes on
GeminiFetchFailedIgnored(ok) == FALSE

\* the image loop goes on after a download, and returns on a failed one
GeminiFetchFailed(ok) == ~ok

GeminiFetch ==
    /\ pc = "gem_fetch"
    /\ ~GeminiLoopDone(g.idx, req.ImageUrls)
    /\ LET url == req.ImageUrls[g.idx]
       IN  /\ fetched' = Append(fetched, url)
           /\ \E ok \in BOOLEAN :
                IF GeminiFetchFailed(ok)
                  THEN /\ g' = [g EXCEPT !.fetchFailed = ~ok]
                       /\ GenReturn(<<>>, ErrImageFetch)
                  ELSE /\ g' = [g EXCEPT
                                  !.fetchFailed = ~ok,
                                  !.parts = Append(@, BytesContent(BytesOf(url),
                                                     DetectContentType(BytesOf(url)))),
                                  !.idx = @ + 1]
                       /\ UNCHANGED <<pc, gen, trace>>
    /\ UNCHANGED <<cfg, hist, procs, op, req, modifiedJSON, sent, ret>>

GeminiRequest(modelName, parts, message, opts) ==
    [model |-> modelName,
     system |-> message.SystemPrompt,
     parts |-> parts,
     json |-> JSONFlag(opts.ResponseFormat),
     \* int32(opts.MaxTokens): the token budgets of the model all fit 32 bits
     maxTokens |-> IF opts.MaxTokens > 0 THEN opts.MaxTokens ELSE 0]

GeminiCall ==
    /\ pc = "gem_fetch"
    /\ GeminiLoopDone(g.idx, req.ImageUrls)
    /\ \E failed \in BOOLEAN, r \in GeminiResponses :
         /\ failed => r = <<>>
         /\ g' = [g EXCEPT !.called = TRUE,
                           !.provErr = failed,
                           !.out = GeminiRequest(g.modelName, g.parts, req, req),
                           !.resp = [NoResp EXCEPT !.candidates = r]]
         /\ IF failed
              THEN GenReturn(<<>>, ErrGeminiCall)
              ELSE /\ pc' = "gem_resp"
                   /\ UNCHANGED <<gen, trace>>
    /\ UNCHANGED <<cfg, hist, procs, op, req, fetched, modifiedJSON, sent, ret>>

\* only the first part's text
ConcatFirstPart(parts) == Head(parts).text

\* strings.Builder over the parts: every part with a non-empty Text is written
RECURSIVE ConcatParts(_)
ConcatParts(parts) ==
    IF parts = <<>> THEN <<>>
    ELSE (IF Head(parts).text # <<>> THEN Head(parts).text ELSE <<>>)
         \o ConcatParts(Tail(parts))

\* the length check answering with an empty success
GeminiResultEmptySuccess(candidates) ==
    IF Len(candidates) = 0
      THEN [val |-> <<>>, err |-> NoErr]
    ELSE LET candidate == candidates[1]
         IN  IF ~candidate.hasContent \/ Len(candidate.parts) = 0
               THEN [val |-> <<>>, err |-> ErrGeminiNoContent]
               ELSE [val |-> ConcatParts(candidate.parts), err |-> NoErr]

GeminiResult(candidates) ==
    IF Len(candidates) = 0
      THEN [val |-> <<>>, err |-> ErrGeminiNoCandidates]
    ELSE LET candidate == candidates[1]
         IN  IF ~candidate.hasContent \/ Len(candidate.parts) = 0
               THEN [val |-> <<>>, err |-> ErrGeminiNoContent]
               ELSE [val |-> ConcatParts(candidate.parts), err |-> NoErr]

GeminiReturn ==
    /\ pc = "gem_resp"
    /\ LET r == GeminiResult(g.resp.candidates)
       IN  GenReturn(r.val, r.err)
    /\ UNCHANGED <<cfg, hist, procs, op, req, g, fetched, modifiedJSON, sent, ret>>

(***************************************************************************)
(* OpenAI adapter: Client.Generate.                                        *)
(***************************************************************************)
OpenAIBegin ==
    /\ pc = "gen"
    /\ cfg.adapter.kind = "openai"
    /\ IF cfg.adapter.client = "nil"
         THEN /\ GenReturn(<<>>, ErrOpenAINotInitialized)
              /\ UNCHANGED <<g, cfg, hist>>
         ELSE /\ g' = [g EXCEPT !.modelName = ModelName(cfg.adapter.defaultModel, req.Model),
                                !.parts = TextParts(req.Text) \o ImageURLParts(req.ImageUrls)]
              /\ pc' = "oai_call"
              /\ cfg' = [cfg EXCEPT !.adapter = AdapterAfter(@, req)]
              /\ hist' = [hist EXCEPT !.overridden = @ \/ req.Model # ""]
              /\ UNCHANGED <<gen, trace>>
    /\ UNCHANGED <<procs, op, req, fetched, modifiedJSON, sent, ret>>

OpenAIRequest(modelName, parts, message, opts) ==
    [model |-> modelName,
     system |-> message.SystemPrompt,
     parts |-> parts,
     json |-> JSONFlag(opts.ResponseFormat),
     maxTokens |-> IF opts.MaxTokens > 0 THEN opts.MaxTokens ELSE 0]

OpenAICall ==
    /\ pc = "oai_call"
    /\ \E failed \in BOOLEAN, r \in OpenAIResponses :
         /\ failed => r = <<>>
         /\ g' = [g EXCEPT !.called = TRUE,
                           !.provErr = failed,
                           !.out = OpenAIRequest(g.modelName, g.parts, req, req),
                           !.resp = [NoResp EXCEPT !.choices = r]]
         /\ IF failed
              THEN GenReturn(<<>>, ErrOpenAICall)
              ELSE /\ pc' = "oai_resp"
                   /\ UNCHANGED <<gen, trace>>
    /\ UNCHANGED <<cfg, hist, procs, op, req, fetched, modifiedJSON, sent, ret>>

OpenAIResult(choices) ==
    IF Len(choices) = 0
      THEN [val |-> <<>>, err |-> ErrOpenAINoChoices]
      ELSE [val |-> choices[1].content, err |-> NoErr]

OpenAIReturn ==
    /\ pc = "oai_resp"
    /\ LET r == OpenAIResult(g.resp.choices)
       IN  GenReturn(r.val, r.err)
    /\ UNCHANGED <<cfg, hist, procs, op, req, g, fetched, modifiedJSON, sent, ret>>

(***************************************************************************)
(* A caller using an adapter directly (README, Example 4).                 *)
(***************************************************************************)
ImageSeqs == UNION {[1..n -> Links] : n \in 0..MaxImages}

CallGenerate ==
    /\ CanCall
    /\ ~cfg.aiClientNil
    /\ \E text \in {"", "hi"}, urls \in ImageSeqs, model \in {"", "override-model"},
          format \in {ResponseFormatJSON, ResponseFormatText, ""} :
         Begin([NoOp EXCEPT !.name = "Generate"],
               [NoReq EXCEPT !.Text = text, !.ImageUrls = urls, !.Model = model,
                             !.ResponseFormat = format],
               "gen", NoRet)

GenerateReturn ==
    /\ pc = "gen_ret"
    /\ op.name = "Generate"
    /\ Return([NoRet EXCEPT !.val = gen.val, !.err = gen.err])
    /\ UNCHANGED <<cfg, hist, procs, op, req, g, fetched, gen, modifiedJSON, sent, trace>>

(***************************************************************************)
(* OCR store: ScanName.                                                    *)
(***************************************************************************)
OcrRequest(text, link) ==
    [NoReq EXCEPT !.SystemPrompt = SystemContent,
                  !.Text = text,
                  !.ImageUrls = <<link>>,
                  !.MaxTokens = cfg.ocr.MaxToken,
                  !.ResponseFormat = ResponseFormatJSON]

CallScanName ==
    /\ CanCall
    /\ \E link \in Links :
         LET o == [NoOp EXCEPT !.name = "ScanName", !.link = link]
         IN  IF cfg.aiClientNil
               THEN Begin(o, NoReq, "done", [NoRet EXCEPT !.err = ErrStoreNotInitialized])
               ELSE Begin(o, OcrRequest(NamePrompt, link), "gen", NoRet)

\* the Unmarshal error dropped: the zero Name is returned as a success
ScanNameResultIgnoringParseError(resp, err) ==
    IF err # NoErr THEN [name |-> "", err |-> err]
    ELSE [name |-> Unmarshal(resp, {"name"}, FALSE).rec["name"], err |-> NoErr]

ScanNameResult(resp, err) ==
    IF err # NoErr THEN [name |-> "", err |-> err]
    ELSE LET u == Unmarshal(resp, {"name"}, FALSE)
         IN  IF u.err THEN [name |-> "", err |-> ErrUnmarshal]
             ELSE [name |-> u.rec["name"], err |-> NoErr]

ScanNameReturn ==
    /\ pc = "gen_ret"
    /\ op.name = "ScanName"
    /\ LET r == ScanNameResult(gen.val, gen.err)
       IN  Return([NoRet EXCEPT !.name = r.name, !.err = r.err])
    /\ UNCHANGED <<cfg, hist, procs, op, req, g, fetched, gen, modifiedJSON, sent, trace>>

(***************************************************************************)
(* OCR store: ScanRawInfo.                                                 *)
(***************************************************************************)
CallScanRawInfo ==
    /\ CanCall
    /\ \E userID \in UserIDs, link \in Links, platformType \in PlatformTypes :
         LET o == [NoOp EXCEPT !.name = "ScanRawInfo", !.userID = userID,
                               !.link = link, !.platform = platformType]
         IN  IF cfg.aiClientNil
               THEN Begin(o, NoReq, "done", [NoRet EXCEPT !.err = ErrStoreNotInitialized])
               ELSE Begin(o, OcrRequest(GetInfoPrompt(platformType), link), "gen", NoRet)

\* an empty result that is let through to the patch
IsEmptyResponseNever(resp) == FALSE

\* resp == "": the result the store refuses before it touches the JSON
IsEmptyResponse(resp) == resp = <<>>

PatchIdentifyURL(resp, link) == SjsonSet(resp, "identify_url", link)

\* where ScanRawInfo goes once the JSON is patched, and once the event is handed over
AfterPatch == "sri_send"
\* a send that is attempted again instead of moving on
AfterSendAgain == "sri_send"
AfterSend == "sri_parse"

ScanRawInfoPatch ==
    /\ pc = "gen_ret"
    /\ op.name = "ScanRawInfo"
    /\ IF gen.err # NoErr
         THEN /\ Return([NoRet EXCEPT !.err = gen.err])
              /\ UNCHANGED <<modifiedJSON, trace>>
       ELSE IF IsEmptyResponse(gen.val)
         THEN /\ Return([NoRet EXCEPT !.err = ErrStoreEmptyContent])
              /\ UNCHANGED <<modifiedJSON, trace>>
       ELSE LET p == PatchIdentifyURL(gen.val, op.link)
            IN  /\ trace' = Append(trace, "patch")
                /\ IF p.err
                     THEN /\ Return([NoRet EXCEPT !.err = ErrSjson])
                          /\ UNCHANGED modifiedJSON
                     ELSE /\ modifiedJSON' = p.out
                          /\ pc' = AfterPatch
                          /\ UNCHANGED ret
    /\ UNCHANGED <<cfg, hist, procs, op, req, g, fetched, gen, sent>>

OcrTopic(isProd) == IF isProd THEN OCRTopicProd ELSE OCRTopicDev

OCREventMessage(userID, payload, platformType) ==
    [UserID |-> userID,
     Payload |-> payload,
     Type |-> OCRMessageTypeIdentifyOCR,
     Source |-> platformType]

\* a send failure returned to the caller instead of being logged
SendFailurePropagated(sendErr) == IF sendErr THEN "failed to send ocr result" ELSE NoErr

\* the error ScanRawInfo returns because mq.Send failed: none, the failure is logged
SendFailure(sendErr) == NoErr

ScanRawInfoSend ==
    /\ pc = "sri_send"
    /\ \E sendErr \in BOOLEAN :
         /\ sent' = Append(sent, [topic |-> OcrTopic(cfg.ocr.IsProd),
                                  msg |-> OCREventMessage(op.userID, modifiedJSON, op.platform),
                                  failed |-> sendErr])
         /\ trace' = Append(trace, "send")
         /\ IF SendFailure(sendErr) # NoErr
              THEN Return([NoRet EXCEPT !.err = SendFailure(sendErr)])
              ELSE /\ pc' = AfterSend
                   /\ UNCHANGED ret
    /\ UNCHANGED <<cfg, hist, procs, op, req, g, fetched, gen, modifiedJSON>>

ScanRawInfoResult(json) ==
    LET u == Unmarshal(json, OCRFields, TRUE)
    IN  IF u.err THEN [NoRet EXCEPT !.err = ErrUnmarshal]
        ELSE [NoRet EXCEPT !.rec = u.rec]

ScanRawInfoParse ==
    /\ pc = "sri_parse"
    /\ trace' = Append(trace, "parse")
    /\ Return(ScanRawInfoResult(modifiedJSON))
    /\ UNCHANGED <<cfg, hist, procs, op, req, g, fetched, gen, modifiedJSON, sent>>

(***************************************************************************)
(* Article store: ExtractTags and Polish.                                  *)
(***************************************************************************)
ArticleRequest(systemPrompt, content, format) ==
    [NoReq EXCEPT !.SystemPrompt = systemPrompt,
                  !.Text = content,
                  !.ImageUrls = <<>>,
                  !.MaxTokens = cfg.article.MaxToken,
                  !.ResponseFormat = format]

ExtractTagsFormat == ResponseFormatJSON
PolishFormat == ResponseFormatText

CallExtractTags ==
    /\ CanCall
    /\ \E content \in Contents, professionType \in PlatformTypes :
         LET o == [NoOp EXCEPT !.name = "ExtractTags", !.content = content,
                               !.platform = professionType]
         IN  IF cfg.aiClientNil
               THEN Begin(o, NoReq, "done", [NoRet EXCEPT !.err = ErrStoreNotInitialized])
               ELSE Begin(o, ArticleRequest(GetExtractTagsSystemPrompt(professionType),
                                            content, ExtractTagsFormat), "gen", NoRet)

ExtractTagsResult(resp, err) ==
    IF err # NoErr THEN [NoRet EXCEPT !.err = err]
    ELSE IF resp = <<>> THEN [NoRet EXCEPT !.err = ErrStoreEmptyContent]
    ELSE [NoRet EXCEPT !.val = resp]

ExtractTagsReturn ==
    /\ pc = "gen_ret"
    /\ op.name = "ExtractTags"
    /\ Return(ExtractTagsResult(gen.val, gen.err))
    /\ UNCHANGED <<cfg, hist, procs, op, req, g, fetched, gen, modifiedJSON, sent, trace>>

CallPolish ==
    /\ CanCall
    /\ \E content \in Contents, professionType \in PlatformTypes :
         LET o == [NoOp EXCEPT !.name = "Polish", !.content = content,
                               !.platform = professionType]
         IN  IF cfg.aiClientNil
               THEN Begin(o, NoReq, "done", [NoRet EXCEPT !.err = ErrStoreNotInitialized])
               ELSE Begin(o, ArticleRequest(GetPolishArticleSystemPrompt(professionType),
                                            content, PolishFormat), "gen", NoRet)

\* the empty-response check left out
PolishResultNoEmptyCheck(resp, err) ==
    IF err # NoErr THEN [NoRet EXCEPT !.err = err]
    ELSE [NoRet EXCEPT !.val = resp]

PolishResult(resp, err) ==
    IF err # NoErr THEN [NoRet EXCEPT !.err = err]
    ELSE IF resp = <<>> THEN [NoRet EXCEPT !.err = ErrStoreEmptyContent]
    ELSE [NoRet EXCEPT !.val = resp]

PolishReturn ==
    /\ pc = "gen_ret"
    /\ op.name = "Polish"
    /\ Return(PolishResult(gen.val, gen.err))
    /\ UNCHANGED <<cfg, hist, procs, op, req, g, fetched, gen, modifiedJSON, sent, trace>>

\* the caller has taken the result and is ready for its next call
CallerNext ==
    /\ pc = "done"
    /\ Begin(NoOp, NoReq, "idle", NoRet)

Next ==
    \/ CallerNext
    \/ CallGenerate
    \/ GeminiBegin
    \/ GeminiFetch
    \/ GeminiCall
    \/ GeminiReturn
    \/ OpenAIBegin
    \/ OpenAICall
    \/ OpenAIReturn
    \/ GenerateReturn
    \/ CallScanName
    \/ ScanNameReturn
    \/ CallScanRawInfo
    \/ ScanRawInfoPatch
    \/ ScanRawInfoSend
    \/ ScanRawInfoParse
    \/ CallExtractTags
    \/ ExtractTagsReturn
    \/ CallPolish
    \/ PolishReturn

Spec == Init /\ [][Next]_vars

(***************************************************************************)
(* Concurrent callers of Generate on one adapter.  Each goroutine has its   *)
(* own arguments and locals; the adapter (cfg.adapter) is the only thing    *)
(* they share.  A step is one statement group of Generate between two       *)
(* points where another goroutine can run.                                  *)
(***************************************************************************)
callVars == <<pc, op, req, g, fetched, gen, modifiedJSON, sent, trace, ret>>

\* the requests the goroutines make: with and without a model override, with and
\* without an image, asking for json or for text
ConcRequests ==
    {[NoReq EXCEPT !.Text = "hi", !.Model = model, !.ImageUrls = x[1],
                   !.ResponseFormat = x[2], !.MaxTokens = x[3]] :
        model \in {"", "override-model"},
        x \in {<<<<>>, ResponseFormatJSON, 0>>, <<<<"u1">>, ResponseFormatText, 256>>}}

ConcGeminiResponses ==
    {<<>>, <<NilContentCandidate>>,
     <<Candidate(<<TextPart(TxtName), TextPart(TxtEmpty), TextPart(TxtUrl)>>)>>}

ConcOpenAIResponses ==
    {<<>>, <<[content |-> TxtEmpty]>>, <<[content |-> TxtName]>>}

InitConc ==
    /\ \E a \in Adapters :
         /\ cfg = [aiClientNil |-> FALSE,
                   adapter |-> a,
                   ocr |-> OcrConfigOrDefault(CHOOSE c \in Configs : c.isNil),
                   article |-> ArticleConfigOrDefault(CHOOSE c \in Configs : c.isNil)]
         /\ hist = [built |-> a, overridden |-> FALSE]
    /\ procs = [p \in Procs |-> IdleProc]
    /\ pc = "idle" /\ op = NoOp /\ req = NoReq /\ g = NoG /\ fetched = <<>>
    /\ gen = NoGen /\ modifiedJSON = <<>> /\ sent = <<>> /\ trace = <<>> /\ ret = NoRet

\* the chosen model name kept where every goroutine reads it, instead of in a local
ProcStepSharedModelName(p, r) ==
    procs' = [q \in Procs |->
                IF q = p THEN r ELSE [procs[q] EXCEPT !.g.modelName = r.g.modelName]]

\* goroutine p moves to the state r; the other goroutines stay where they are
ProcStep(p, r) == procs' = [procs EXCEPT ![p] = r]

ProcGenReturn(s, val, err) ==
    [s EXCEPT !.gen = [done |-> TRUE, val |-> val, err |-> err], !.pc = "gen_ret"]

ConcCallGenerate(p) ==
    /\ procs[p].pc = "idle"
    /\ \E r \in ConcRequests :
         ProcStep(p, [IdleProc EXCEPT !.pc = "gen", !.req = r])
    /\ UNCHANGED <<cfg, hist>>
    /\ UNCHANGED callVars

ConcGeminiBegin(p) ==
    LET s == procs[p]
    IN  /\ s.pc = "gen"
        /\ cfg.adapter.kind = "gemini"
        /\ IF cfg.adapter.client = "nil"
             THEN /\ ProcStep(p, ProcGenReturn(s, <<>>, ErrGeminiNotInitialized))
                  /\ UNCHANGED <<cfg, hist>>
             ELSE /\ ProcStep(p, [s EXCEPT
                          !.g.modelName = ModelName(cfg.adapter.defaultModel, s.req.Model),
                          !.g.parts = TextParts(s.req.Text),
                          !.g.idx = 1,
                          !.pc = "gem_fetch"])
                  /\ cfg' = [cfg EXCEPT !.adapter = AdapterAfter(@, s.req)]
                  /\ hist' = [hist EXCEPT !.overridden = @ \/ s.req.Model # ""]
        /\ UNCHANGED callVars

ConcGeminiFetch(p) ==
    LET s == procs[p]
    IN  /\ s.pc = "gem_fetch"
        /\ ~GeminiLoopDone(s.g.idx, s.req.ImageUrls)
        /\ LET url == s.req.ImageUrls[s.g.idx]
               f == [s EXCEPT !.fetched = Append(@, url)]
           IN  \E ok \in BOOLEAN :
                 IF GeminiFetchFailed(ok)
                   THEN ProcStep(p, ProcGenReturn([f EXCEPT !.g.fetchFailed = ~ok],
                                                  <<>>, ErrImageFetch))
                   ELSE ProcStep(p, [f EXCEPT
                            !.g.fetchFailed = ~ok,
                            !.g.parts = Append(@, BytesContent(BytesOf(url),
                                                    DetectContentType(BytesOf(url)))),
                            !.g.idx = @ + 1])
        /\ UNCHANGED <<cfg, hist>>
        /\ UNCHANGED callVars

ConcGeminiCall(p) ==
    LET s == procs[p]
    IN  /\ s.pc = "gem_fetch"
        /\ GeminiLoopDone(s.g.idx, s.req.ImageUrls)
        /\ \E failed \in BOOLEAN, r \in ConcGeminiResponses :
             /\ failed => r = <<>>
             /\ LET c == [s EXCEPT
                            !.g.called = TRUE,
                            !.g.provErr = failed,
                            !.g.out = GeminiRequest(s.g.modelName, s.g.parts, s.req, s.req),
                            !.g.resp = [NoResp EXCEPT !.candidates = r]]
                IN  IF failed
                      THEN ProcStep(p, ProcGenReturn(c, <<>>, ErrGeminiCall))
                      ELSE ProcStep(p, [c EXCEPT !.pc = "gem_resp"])
        /\ UNCHANGED <<cfg, hist>>
        /\ UNCHANGED callVars

ConcGeminiReturn(p) ==
    LET s == procs[p]
    IN  /\ s.pc = "gem_resp"
        /\ LET r == GeminiResult(s.g.resp.candidates)
           IN  ProcStep(p, ProcGenReturn(s, r.val, r.err))
        /\ UNCHANGED <<cfg, hist>>
        /\ UNCHANGED callVars

ConcOpenAIBegin(p) ==
    LET s == procs[p]
    IN  /\ s.pc = "gen"
        /\ cfg.adapter.kind = "openai"
        /\ IF cfg.adapter.client = "nil"
             THEN /\ ProcStep(p, ProcGenReturn(s, <<>>, ErrOpenAINotInitialized))
                  /\ UNCHANGED <<cfg, hist>>
             ELSE /\ ProcStep(p, [s EXCEPT
                          !.g.modelName = ModelName(cfg.adapter.defaultModel, s.req.Model),
                          !.g.parts = TextParts(s.req.Text) \o ImageURLParts(s.req.ImageUrls),
                          !.pc = "oai_call"])
                  /\ cfg' = [cfg EXCEPT !.adapter = AdapterAfter(@, s.req)]
                  /\ hist' = [hist EXCEPT !.overridden = @ \/ s.req.Model # ""]
        /\ UNCHANGED callVars

ConcOpenAICall(p) ==
    LET s == procs[p]
    IN  /\ s.pc = "oai_call"
        /\ \E failed \in BOOLEAN, r \in ConcOpenAIResponses :
             /\ failed => r = <<>>
             /\ LET c == [s EXCEPT
                            !.g.called = TRUE,
                            !.g.provErr = failed,
                            !.g.out = OpenAIRequest(s.g.modelName, s.g.parts, s.req, s.req),
                            !.g.resp = [NoResp EXCEPT !.choices = r]]
                IN  IF failed
                      THEN ProcStep(p, ProcGenReturn(c, <<>>, ErrOpenAICall))
                      ELSE ProcStep(p, [c EXCEPT !.pc = "oai_resp"])
        /\ UNCHANGED <<cfg, hist>>
        /\ UNCHANGED callVars

ConcOpenAIReturn(p) ==
    LET s == procs[p]
    IN  /\ s.pc = "oai_resp"
        /\ LET r == OpenAIResult(s.g.resp.choices)
           IN  ProcStep(p, ProcGenReturn(s, r.val, r.err))
        /\ UNCHANGED <<cfg, hist>>
        /\ UNCHANGED callVars

\* the goroutine has taken Generate's result and is ready for its next call
ConcGenerateReturn(p) ==
    /\ procs[p].pc = "gen_ret"
    /\ ProcStep(p, IdleProc)
    /\ UNCHANGED <<cfg, hist>>
    /\ UNCHANGED callVars

NextConc ==
    \E p \in Procs :
        \/ ConcCallGenerate(p)
        \/ ConcGeminiBegin(p)
        \/ ConcGeminiFetch(p)
        \/ ConcGeminiCall(p)
        \/ ConcGeminiReturn(p)
        \/ ConcOpenAIBegin(p)
        \/ ConcOpenAICall(p)
        \/ ConcOpenAIReturn(p)
        \/ ConcGenerateReturn(p)

SpecConc == InitConc /\ [][NextConc]_vars

(***************************************************************************)
(* Properties.                                                             *)
(***************************************************************************)
Finished(name) == pc = "done" /\ op.name = name

IsPrefix(a, b) == Len(a) <= Len(b) /\ a = SubSeq(b, 1, Len(a))

\* C1: when the adapter's result is non-empty, patches and parses, ScanRawInfo
\* returns the parsed record as a success whether mq.Send succeeded or failed.
C1_SendOutcomeNeverGatesResult ==
    (Finished("ScanRawInfo") /\ gen.done /\ gen.err = NoErr /\ gen.val # <<>>) =>
        LET p == SjsonSet(gen.val, "identify_url", op.link)
            u == Unmarshal(p.out, OCRFields, TRUE)
        IN  (~p.err /\ ~u.err) =>
              /\ Len(sent) = 1
              /\ \A failed \in BOOLEAN :
                    sent[1].failed = failed => (ret.err = NoErr /\ ret.rec = u.rec)

C1_Witness ==
    /\ Finished("ScanRawInfo")
    /\ Len(sent) = 1 /\ sent[1].failed
    /\ ret.err = NoErr
    /\ ret.rec["name"] = Ptr("A")

\* C2 (as claimed): every record ScanRawInfo returns has identify_url equal to the
\* image URI of the call, and every other field as the model's own output gives it.
C2_IdentifyURLIsInputURI ==
    (Finished("ScanRawInfo") /\ ret.err = NoErr) =>
        /\ ret.rec["identify_url"] = Ptr(op.link)
        /\ \A f \in OCRFields \ {"identify_url"} :
              ret.rec[f] = Unmarshal(gen.val, OCRFields, TRUE).rec[f]

\* C3 (as claimed): the steps of a ScanRawInfo call come in the order Generate,
\* patch, parse, send; mq.Send is never invoked before the patched JSON is parsed.
C3_ParseBeforeSend ==
    op.name = "ScanRawInfo" => IsPrefix(trace, <<"generate", "patch", "parse", "send">>)

\* C4: a ScanRawInfo call that returns a record has invoked mq.Send exactly once,
\* and no ScanRawInfo call invokes it twice, also when the send failed.
C4_SendExactlyOnce ==
    op.name = "ScanRawInfo" =>
        /\ Len(sent) <= 1
        /\ (pc = "done" /\ ret.err = NoErr) => Len(sent) = 1

C4_Witness ==
    /\ Finished("ScanRawInfo")
    /\ Len(sent) = 1 /\ sent[1].failed
    /\ trace = <<"generate", "patch", "send", "parse">>

\* the value of the name member of an object text: of the last one, "" when none
NameMember(t) ==
    IF Kind(t, 1) # "lb" THEN ""
    ELSE LET ms == MemberList(t, 2)
             S == {i \in 1..Len(ms) : /\ FoldKey(ms[i].key) = "name"
                                      /\ Kind(t, ms[i].from) = "str"}
         IN  IF S = {} THEN ""
             ELSE t[ms[CHOOSE i \in S : \A j \in S : j <= i].from][2]

\* C5: ScanName returns an error and no name when the adapter is missing or fails,
\* or its result is not well-formed JSON; a name returned as a success is the name
\* member of a result that is well-formed JSON.
C5_ScanNameFailsOnBadJSON ==
    Finished("ScanName") =>
        /\ (cfg.aiClientNil \/ gen.err # NoErr \/ ~Valid(gen.val))
              => (ret.err # NoErr /\ ret.name = "")
        /\ ret.err = NoErr
              => (gen.done /\ gen.err = NoErr /\ Valid(gen.val)
                  /\ ret.name = NameMember(gen.val))

C5_Witness ==
    /\ Finished("ScanName")
    /\ gen.done /\ gen.err = NoErr /\ gen.val = TxtGarbage
    /\ ret.err = ErrUnmarshal

\* what the provider answered, for a call that got an answer
Answered == gen.done /\ g.called /\ ~g.provErr
IsGemini == cfg.adapter.kind = "gemini"
IsOpenAI == cfg.adapter.kind = "openai"
Items == IF IsGemini THEN g.resp.candidates ELSE g.resp.choices

\* C6: in both adapters a provider response with zero candidates / choices makes
\* Generate return the adapter's empty-response error and no text.
C6_ZeroCandidatesIsError ==
    (Answered /\ Len(Items) = 0) =>
        /\ gen.val = <<>>
        /\ IsGemini => gen.err = "empty response from Gemini"
        /\ IsOpenAI => gen.err = "empty response choices from OpenAI"

C6_Witness ==
    /\ Answered /\ IsGemini
    /\ g.resp.candidates = <<>>
    /\ gen.err = ErrGeminiNoCandidates
    /\ op.name = "ScanName" /\ pc = "done" /\ ret.err = ErrGeminiNoCandidates

TopHasNoContent ==
    IF IsGemini
      THEN ~g.resp.candidates[1].hasContent \/ g.resp.candidates[1].parts = <<>>
      ELSE g.resp.choices[1].content = <<>>

RECURSIVE JoinTexts(_)
JoinTexts(parts) ==
    IF parts = <<>> THEN <<>> ELSE Head(parts).text \o JoinTexts(Tail(parts))

TopText ==
    IF IsGemini THEN JoinTexts(g.resp.candidates[1].parts)
    ELSE g.resp.choices[1].content

\* C7 (as claimed): in both adapters a top candidate / choice with no content makes
\* Generate fail, and a successful result is the concatenation of the top
\* candidate's text parts.
C7_NoContentIsError ==
    (Answered /\ Len(Items) > 0) =>
        /\ TopHasNoContent => gen.err # NoErr
        /\ gen.err = NoErr => gen.val = TopText

\* C7 (amended): the Gemini adapter fails on a top candidate with nil content or
\* no parts and otherwise returns the in-order concatenation of its parts' texts;
\* the OpenAI adapter returns the top choice's content as a success, empty or not.
C7_GeminiNoContentIsError ==
    (Answered /\ Len(Items) > 0) =>
        /\ (IsGemini /\ TopHasNoContent)
              => (gen.err = "empty content in Gemini response" /\ gen.val = <<>>)
        /\ (IsGemini /\ ~TopHasNoContent)
              => (gen.err = NoErr /\ gen.val = TopText)
        /\ IsOpenAI => (gen.err = NoErr /\ gen.val = g.resp.choices[1].content)

C7_Witness ==
    /\ Answered /\ IsGemini
    /\ Len(g.resp.candidates) = 1
    /\ Len(g.resp.candidates[1].parts) = 3
    /\ g.resp.candidates[1].parts[1].text = <<LB>>
    /\ gen.err = NoErr /\ gen.val = TxtName

\* C8 (as claimed): in both adapters a Generate call that reached the provider has
\* fetched every image reference of the request, once each and in order; a failed
\* fetch keeps the call from the provider; no reference means no fetch.
C8_FetchBeforeProvider ==
    /\ g.called => fetched = req.ImageUrls
    /\ g.fetchFailed => ~g.called
    /\ req.ImageUrls = <<>> => fetched = <<>>

RECURSIVE BytesParts(_)
BytesParts(urls) ==
    IF urls = <<>> THEN <<>>
    ELSE <<BytesContent(BytesOf(Head(urls)), DetectContentType(BytesOf(Head(urls))))>>
         \o BytesParts(Tail(urls))

ImageParts(parts) == SelectSeq(parts, LAMBDA x : x.kind # "text")

\* C8 (amended): the Gemini adapter fetches every image reference, once each and in
\* order, before the provider call, and a failed fetch ends the call with the
\* download error and no provider call; the OpenAI adapter fetches nothing and
\* hands the references to the provider as URLs; no reference means no fetch.
C8_GeminiFetchBeforeProvider ==
    /\ IsPrefix(fetched, req.ImageUrls)
    /\ req.ImageUrls = <<>> => fetched = <<>>
    /\ IsGemini =>
          /\ g.called => (fetched = req.ImageUrls
                          /\ ImageParts(g.out.parts) = BytesParts(req.ImageUrls))
          /\ g.fetchFailed => (~g.called /\ gen.done /\ gen.err = ErrImageFetch)
    /\ IsOpenAI =>
          /\ fetched = <<>>
          /\ g.called => ImageParts(g.out.parts) = ImageURLParts(req.ImageUrls)

C8_Witness ==
    /\ IsGemini /\ g.called
    /\ req.ImageUrls = <<"u2", "u1">>
    /\ fetched = <<"u2", "u1">>

\* C9: in both adapters the outgoing provider request has the JSON-output flag set
\* exactly when the options ask for the json response format.
C9_JSONFlagFollowsFormat ==
    g.called => (g.out.json <=> req.ResponseFormat = "json")

C9_Witness ==
    /\ IsOpenAI /\ g.called
    /\ req.ResponseFormat = "text"
    /\ ~g.out.json
    /\ op.name = "Polish"

\* C10: ExtractTags and Polish return the adapter's result unchanged exactly when
\* there is an adapter, its call succeeded and the result is not empty; otherwise
\* they return an error and no text.  ExtractTags asks for json, Polish for text.
C10_ArticleReturnsResultUnmodified ==
    /\ (Finished("ExtractTags") \/ Finished("Polish")) =>
          LET ok == ~cfg.aiClientNil /\ gen.done /\ gen.err = NoErr /\ gen.val # <<>>
          IN  /\ ok => (ret.err = NoErr /\ ret.val = gen.val)
              /\ ~ok => (ret.err # NoErr /\ ret.val = <<>>)
    /\ (op.name = "ExtractTags" /\ ~cfg.aiClientNil) => req.ResponseFormat = "json"
    /\ (op.name = "Polish" /\ ~cfg.aiClientNil) => req.ResponseFormat = "text"

C10_Witness ==
    /\ Finished("Polish")
    /\ gen.val = TxtGarbage
    /\ ret.err = NoErr /\ ret.val = TxtGarbage

\* C11: a model override applies to its own call only.  Whatever calls came before,
\* the adapter still holds the client handle and default model given at
\* construction; a provider request of a call with an override names the override,
\* and one of a call without an override names the constructed default.
C11_OverrideIsPerCall ==
    /\ cfg.adapter = hist.built
    /\ g.called =>
          g.out.model = (IF req.Model # "" THEN req.Model ELSE hist.built.defaultModel)

C11_Witness ==
    /\ hist.overridden
    /\ g.called /\ req.Model = ""
    /\ hist.built.defaultModel = "custom-model"
    /\ g.out.model = "custom-model"

\* C13: a ScanRawInfo call whose adapter returned the empty string without error
\* fails with the store's empty-response error, which is neither the patch error
\* nor the parse error; in that call nothing was patched or parsed and the queue
\* was not handed any event.
C13_EmptyResultFailsBeforePatch ==
    (Finished("ScanRawInfo") /\ gen.done /\ gen.err = NoErr /\ gen.val = <<>>) =>
        /\ ret.err = "empty response content from AI client"
        /\ ret.err \notin {ErrSjson, ErrUnmarshal}
        /\ ret.rec = NoRet.rec
        /\ trace = <<"generate">>
        /\ modifiedJSON = <<>>
        /\ sent = <<>>

C13_Witness ==
    /\ Finished("ScanRawInfo")
    /\ IsOpenAI /\ g.called /\ ~g.provErr
    /\ gen.done /\ gen.err = NoErr /\ gen.val = <<>>
    /\ ret.err = ErrStoreEmptyContent
    /\ sent = <<>>

\* the record a consumer of the event decodes from its payload
PayloadIdentifyURL(payload) == Unmarshal(payload, {"identify_url"}, TRUE)

\* C14: every event ScanRawInfo hands to the queue carries the call's userID, the
\* call's platform category as source and the identify-OCR type, goes to the
\* production topic exactly when the store's IsProd flag is set (the development
\* topic for a store built with a nil config), and has a payload that decodes to
\* a record whose identify_url is the call's image URI.
C14_EventCarriesCallData ==
    \A i \in 1..Len(sent) :
        /\ op.name = "ScanRawInfo"
        /\ sent[i].msg.UserID = op.userID
        /\ sent[i].msg.Source = op.platform
        /\ sent[i].msg.Type = "identify_ocr"
        /\ sent[i].topic = (IF cfg.ocr.IsProd THEN OCRTopicProd ELSE OCRTopicDev)
        /\ cfg.ocr = OcrConfigOrDefault([isNil |-> TRUE, MaxToken |-> 0, IsProd |-> FALSE])
              => sent[i].topic = OCRTopicDev
        /\ LET u == PayloadIdentifyURL(sent[i].msg.Payload)
           IN  ~u.err /\ u.rec["identify_url"] = Ptr(op.link)

\* the part of C14 that does not depend on the payload's text
C14_EventEnvelope ==
    \A i \in 1..Len(sent) :
        /\ op.name = "ScanRawInfo"
        /\ sent[i].msg.UserID = op.userID
        /\ sent[i].msg.Source = op.platform
        /\ sent[i].msg.Type = "identify_ocr"
        /\ sent[i].topic = (IF cfg.ocr.IsProd THEN OCRTopicProd ELSE OCRTopicDev)

\* C15: the queue is handed an event only by ScanRawInfo calls that succeed: a
\* ScanRawInfo call that returned an error has sent nothing, and a ScanName call
\* never sends.
C15_SendOnlyOnSuccess ==
    /\ (Finished("ScanRawInfo") /\ ret.err # NoErr) => sent = <<>>
    /\ op.name = "ScanName" => sent = <<>>

\* the parts of C15 that hold: only a failure to parse the patched JSON comes
\* after a send, and ScanName never sends
C15_SendOnlyBeforeParseFailure ==
    /\ (Finished("ScanRawInfo") /\ ret.err \notin {NoErr, ErrUnmarshal}) => sent = <<>>
    /\ op.name = "ScanName" => sent = <<>>

\* what a call's provider request must be, from that call's request and options
\* and the adapter as constructed
OwnRequest(s) ==
    [model |-> IF s.req.Model # "" THEN s.req.Model ELSE hist.built.defaultModel,
     system |-> s.req.SystemPrompt,
     parts |-> (IF s.req.Text # "" THEN <<TextContent(s.req.Text)>> ELSE <<>>)
               \o (IF hist.built.kind = "gemini" THEN BytesParts(s.req.ImageUrls)
                   ELSE ImageURLParts(s.req.ImageUrls)),
     json |-> s.req.ResponseFormat = "json",
     maxTokens |-> s.req.MaxTokens]

ProcAnswered(s) == s.gen.done /\ s.g.called /\ ~s.g.provErr

\* C12: under every interleaving of concurrent Generate calls on one adapter, the
\* adapter keeps the handle and default model of its construction; each call's
\* provider request is the one its own request and options dictate; and two calls
\* with the same request get the same provider request, and with the same
\* provider response too the same result, whatever the other calls were doing.
C12_ConcurrentCallsAreIndependent ==
    /\ cfg.adapter = hist.built
    /\ \A p \in Procs :
          procs[p].g.called => procs[p].g.out = OwnRequest(procs[p])
    /\ \A p, q \in Procs :
          (procs[p].req = procs[q].req /\ procs[p].g.called /\ procs[q].g.called) =>
             /\ procs[p].g.out = procs[q].g.out
             /\ (/\ ProcAnswered(procs[p]) /\ ProcAnswered(procs[q])
                 /\ procs[p].g.resp = procs[q].g.resp) => procs[p].gen = procs[q].gen

C12_Witness ==
    /\ hist.overridden
    /\ \E p, q \in Procs :
          /\ p # q
          /\ procs[p].req.Model = "override-model" /\ procs[q].req.Model = ""
          /\ procs[p].g.called /\ procs[p].pc \in {"gem_resp", "oai_resp"}
          /\ procs[p].g.out.model = "override-model"
          /\ ProcAnswered(procs[q])
          /\ procs[q].g.out.model = hist.built.defaultModel
          /\ procs[q].gen.err = NoErr /\ procs[q].gen.val # <<>>
====
